---------------------------- MODULE Spec2Model ----------------------------
(***************************************************************************)
(* A model of hydra/_internal/config_loader.py (class ConfigLoader).       *)
(*                                                                         *)
(* Representation.                                                         *)
(*   - A Python string is a sequence of lexemes, so that the code's string *)
(*     operations (split at "=", "," in value, "_SKIP_" in name,           *)
(*     startswith, "{}/{}".format, splitext) are computed and not assumed: *)
(*       "model=a,b"      is <<"model", "=", "a", ",", "b">>               *)
(*       "hydra/launcher" is <<"hydra", "/", "launcher">>                  *)
(*       "model/a.yaml"   is <<"model", "/", "a", ".yaml">>                *)
(*   - Optional[T] is a sequence of length at most one: None is <<>>.      *)
(*   - An element of a defaults ListConfig is a record: a str element has  *)
(*     isdict = FALSE and its text in str; a DictConfig element has        *)
(*     isdict = TRUE and its (key, value) pairs, in key order, in items.   *)
(*   - A document tree is a function from dotted key paths to scalar       *)
(*     values (the text of the YAML scalar).                               *)
(*   - Python list indices are 0-based; the model's are 1-based.           *)
(*   - A raised exception is the name of its class in the field err; ""    *)
(*     is no exception.                                                    *)
(***************************************************************************)
EXTENDS Integers, Sequences, FiniteSets, TLC

VARIABLES
    job_defaults,        \* the defaults list written in conf/config.yaml
    default_strict,      \* ConfigLoader.default_strict
    all_config_checked,  \* ConfigLoader.all_config_checked
    call,                \* the arguments of the most recent call
    ret,                 \* what the most recent call returned or raised
    master,              \* the configuration a caller kept for load_sweep_config
    m_primary,           \* _merge_default_lists: argument primary
    m_merged_list,       \* _merge_default_lists: argument merged_list
    m_out,               \* _merge_default_lists: primary after the call
    m_pc,                \* "input" before the call, "done" after it
    g_files,             \* list_groups: the paths of the file system
    g_resources,         \* list_groups: the resources of package hydra.conf
    g_parent,            \* list_groups: argument parent_name
    g_out,               \* list_groups: the names returned, as a set
    g_pc                 \* "input" before the call, "done" after it

vars == <<job_defaults, default_strict, all_config_checked, call, ret, master,
          m_primary, m_merged_list, m_out, m_pc,
          g_files, g_resources, g_parent, g_out, g_pc>>

loader_vars == <<job_defaults, default_strict, all_config_checked, call, ret,
                 master>>

merge_vars == <<m_primary, m_merged_list, m_out, m_pc>>

group_vars == <<g_files, g_resources, g_parent, g_out, g_pc>>

---------------------------------------------------------------------------
(* Bounds of the model.                                                    *)

MaxOverrides == 2

MaxListLen == 2

MaxTrace == 6

---------------------------------------------------------------------------
(* Strings, optionals, sequences.                                          *)

None == <<>>

Some(v) == <<v>>

\* YAML null as the value of a key (cfg.key is None).
NoneValue == <<"<None>">>

TrueValue == <<"true">>

FalseValue == <<"false">>

SKIP == <<"_SKIP_">>

\* Python's `lex in s` for a one-lexeme needle.
Contains(s, lex) == \E i \in DOMAIN s : s[i] = lex

\* s.find(lex) + 1, and 0 when lex does not occur.
Find(s, lex) ==
    IF Contains(s, lex)
    THEN CHOOSE i \in DOMAIN s : s[i] = lex /\ \A j \in 1..(i - 1) : s[j] # lex
    ELSE 0

\* LET x == v IN F(x), with v computed once.
Let(v, F(_)) == CHOOSE r \in {F(x) : x \in {v}} : TRUE

SeqsUpTo(S, n) == UNION {[1..k -> S] : k \in 0..n}

\* A variant of RemoveFirst that removes nothing.
RemoveFirst_keeps(list, x) == list

\* list.remove(x): the first element equal to x is removed.
RemoveFirst(list, x) ==
    LET i == Find(list, x)
    IN  IF i = 0 THEN list
        ELSE SubSeq(list, 1, i - 1) \o SubSeq(list, i + 1, Len(list))

\* del list[i]
DelAt(list, i) == SubSeq(list, 1, i - 1) \o SubSeq(list, i + 1, Len(list))

---------------------------------------------------------------------------
(* Elements of a defaults list.                                            *)

Bare(s) == [isdict |-> FALSE, str |-> s, items |-> <<>>]

Dict(items) == [isdict |-> TRUE, str |-> <<>>, items |-> items]

Binding(group, choice) == Dict(<<<<group, choice>>>>)

\* - group: choice
\*   optional: true
BindingOptional(group, choice) ==
    Dict(<<<<group, choice>>, <<<<"optional">>, TrueValue>>>>)

\* - optional: true
\*   group: choice
OptionalBinding(group, choice) ==
    Dict(<<<<<<"optional">>, TrueValue>>, <<group, choice>>>>)

\* d[key], None for a key that is absent (a DictConfig that is not struct).
GetItem(d, key) ==
    IF \E i \in DOMAIN d.items : d.items[i][1] = key
    THEN d.items[CHOOSE i \in DOMAIN d.items : d.items[i][1] = key][2]
    ELSE NoneValue

\* d[key] = value: in place for a key that exists, appended otherwise.
SetItem(d, key, value) ==
    IF \E i \in DOMAIN d.items : d.items[i][1] = key
    THEN [d EXCEPT !.items =
            [i \in DOMAIN d.items |->
                IF d.items[i][1] = key THEN <<key, value>> ELSE d.items[i]]]
    ELSE [d EXCEPT !.items = Append(d.items, <<key, value>>)]

\* del d[key]
DelItem(d, key) ==
    [d EXCEPT !.items = SelectSeq(d.items, LAMBDA kv : kv[1] # key)]

---------------------------------------------------------------------------
(* _merge_default_lists                                                    *)

get_key(d1) ==
    LET key1 == d1.items[1][1]
    IN  IF key1 = <<"optional">> THEN d1.items[2][1] ELSE key1

\* The first loop: key_to_idx[key] = idx for every DictConfig of primary, a
\* later index overwriting an earlier one.
RECURSIVE merge_key_to_idx(_, _, _)
merge_key_to_idx(primary, idx, acc) ==
    IF idx > Len(primary) THEN acc
    ELSE merge_key_to_idx(primary, idx + 1,
            IF primary[idx].isdict
            THEN (get_key(primary[idx]) :> idx) @@ acc
            ELSE acc)

\* The second loop, over a deep copy of merged_list: st.primary and
\* st.merged_list are the two lists as mutated so far.
RECURSIVE merge_matched(_, _, _, _)
merge_matched(copied, i, key_to_idx, st) ==
    IF i > Len(copied) THEN st
    ELSE merge_matched(copied, i + 1, key_to_idx,
            Let(copied[i], LAMBDA d :
                IF d.isdict /\ get_key(d) \in DOMAIN key_to_idx
                THEN [primary |-> [st.primary EXCEPT ![key_to_idx[get_key(d)]] = d],
                      merged_list |-> RemoveFirst(st.merged_list, d)]
                ELSE st))

\* A variant of MergeKeyToIdx in which the first index of a key is kept.
merge_key_to_idx_first(primary) ==
    [k \in {get_key(primary[i]) : i \in {j \in DOMAIN primary : primary[j].isdict}} |->
        CHOOSE i \in DOMAIN primary :
            /\ primary[i].isdict
            /\ get_key(primary[i]) = k
            /\ \A j \in 1..(i - 1) : ~(primary[j].isdict /\ get_key(primary[j]) = k)]

MergeKeyToIdx(primary) == merge_key_to_idx(primary, 1, <<>>)

\* primary after _merge_default_lists(primary, merged_list)
_merge_default_lists(primary, merged_list) ==
    Let(merge_matched(merged_list, 1, MergeKeyToIdx(primary),
                      [primary |-> primary, merged_list |-> merged_list]),
        LAMBDA st : st.primary \o st.merged_list)

---------------------------------------------------------------------------
(* The configuration repository the composer reads: a search path of two   *)
(* entries, the framework's package and the application's directory.       *)

ConfigSearchPath ==
    << [provider |-> "hydra", path |-> <<"pkg://", "hydra.conf">>],
       [provider |-> "main",  path |-> <<"conf">>] >>

\* Importable packages and the resources (files and directories) of each.
PackageResources ==
    <<"hydra.conf">> :>
        { <<"hydra", ".yaml">>,
          <<"hydra">>,
          <<"hydra", "/", "launcher">>,
          <<"hydra", "/", "launcher", "/", "basic", ".yaml">>,
          <<"hydra", "/", "launcher", "/", "fast", ".yaml">> }

\* Paths (files and directories) of the file system.
FilesystemPaths ==
    { <<"conf">>,
      <<"conf", "/", "config", ".yaml">>,
      <<"conf", "/", "extra", ".yaml">>,
      <<"conf", "/", "model">>,
      <<"conf", "/", "model", "/", "a", ".yaml">>,
      <<"conf", "/", "model", "/", "b", ".yaml">>,
      <<"conf", "/", "db">>,
      <<"conf", "/", "db", "/", "x", ".yaml">> }

HydraYamlDefaults == << Binding(<<"hydra", "/", "launcher">>, <<"basic">>) >>

\* The document at a full path: its defaults list and the rest of its keys.
\* jd is the defaults list of conf/config.yaml.
Document(fullpath, jd) ==
    CASE fullpath = <<"hydra.conf", "/", "hydra", ".yaml">> ->
            [defaults |-> HydraYamlDefaults,
             body |-> (<<"hydra", ".", "verbose">> :> <<"false">>)
                   @@ (<<"hydra", ".", "runtime", ".", "cwd">> :> <<"?">>)]
      [] fullpath = <<"hydra.conf", "/", "hydra", "/", "launcher", "/", "basic", ".yaml">> ->
            [defaults |-> <<>>,
             body |-> (<<"hydra", ".", "launcher", ".", "name">> :> <<"basic">>)]
      [] fullpath = <<"hydra.conf", "/", "hydra", "/", "launcher", "/", "fast", ".yaml">> ->
            [defaults |-> <<>>,
             body |-> (<<"hydra", ".", "launcher", ".", "name">> :> <<"fast">>)
                   @@ (<<"workers">> :> <<"8">>)]
      [] fullpath = <<"conf", "/", "config", ".yaml">> ->
            [defaults |-> jd,
             body |-> (<<"foo">> :> <<"1">>) @@ (<<"lr">> :> <<"0">>)]
      [] fullpath = <<"conf", "/", "extra", ".yaml">> ->
            [defaults |-> <<>>,
             body |-> (<<"extra">> :> <<"1">>) @@ (<<"lr">> :> <<"9">>)]
      [] fullpath = <<"conf", "/", "model", "/", "a", ".yaml">> ->
            [defaults |-> <<>>,
             body |-> (<<"model", ".", "name">> :> <<"a">>) @@ (<<"lr">> :> <<"1">>)]
      [] fullpath = <<"conf", "/", "model", "/", "b", ".yaml">> ->
            [defaults |-> <<>>,
             body |-> (<<"model", ".", "name">> :> <<"b">>) @@ (<<"lr">> :> <<"2">>)]
      [] fullpath = <<"conf", "/", "db", "/", "x", ".yaml">> ->
            [defaults |-> <<>>,
             body |-> (<<"db", ".", "name">> :> <<"x">>) @@ (<<"lr">> :> <<"3">>)]

\* The defaults lists conf/config.yaml may hold.
JobDefaultsChoices ==
    { << Binding(<<"model">>, <<"a">>) >>,
      << OptionalBinding(<<"model">>, <<"a">>) >>,
      << Binding(<<"model">>, <<"a">>), Binding(<<"db">>, <<"x">>), Bare(<<"extra">>) >>,
      << BindingOptional(<<"model">>, <<"zzz">>), Bare(<<"extra">>) >>,
      << Binding(<<"db">>, <<"x">>), Binding(<<"model">>, <<"zzz">>) >>,
      << Binding(<<"hydra", "/", "launcher">>, <<"fast">>), Bare(<<"nofile">>) >> }

---------------------------------------------------------------------------
(* Search path resolution.                                                 *)

_split_path(path) ==
    LET is_pkg == Len(path) > 0 /\ path[1] = "pkg://"
    IN  [is_pkg |-> is_pkg, path |-> IF is_pkg THEN Tail(path) ELSE path]

_split_module_and_resource(filename) ==
    Let(Find(filename, "/"), LAMBDA sep :
        Let([module_name |-> IF sep = 0 THEN filename
                             ELSE SubSeq(filename, 1, sep - 1),
             resource_name |-> IF sep = 0 THEN <<>>
                               ELSE SubSeq(filename, sep + 1, Len(filename))],
            LAMBDA mr :
                IF mr.module_name = <<>>
                THEN [module_name |-> mr.resource_name, resource_name |-> <<>>]
                ELSE mr))

\* resource_exists: False for a module that cannot be imported (ImportError).
_exists(is_pkg, filename) ==
    IF is_pkg
    THEN Let(_split_module_and_resource(filename), LAMBDA mr :
            /\ mr.module_name \in DOMAIN PackageResources
            /\ \/ mr.resource_name = <<>>
               \/ mr.resource_name \in PackageResources[mr.module_name])
    ELSE filename \in FilesystemPaths

\* The index in ConfigSearchPath of the first entry that has filepath, 0 for
\* None.
_find_config(filepath) ==
    Let({i \in DOMAIN ConfigSearchPath :
            Let(_split_path(ConfigSearchPath[i].path), LAMBDA sp :
                _exists(sp.is_pkg, sp.path \o <<"/">> \o filepath))},
        LAMBDA hits : IF hits = {} THEN 0
                      ELSE CHOOSE i \in hits : \A j \in hits : i <= j)

exists_in_search_path(filepath) == _find_config(filepath) # 0

---------------------------------------------------------------------------
(* Loading a document.                                                     *)

LoadTrace(filename, path, provider) ==
    [filename |-> filename, path |-> path, provider |-> provider]

\* _load_config_impl(input_file, record_load) on a composer whose
\* all_config_checked is checked: the loaded document (None if not found)
\* and all_config_checked afterwards.
_load_config_impl(input_file, record_load, checked, jd) ==
    Let(_find_config(input_file), LAMBDA found :
        IF found = 0
        THEN [loaded_cfg |-> None,
              checked |-> IF record_load
                          THEN Append(checked, LoadTrace(input_file, None, None))
                          ELSE checked]
        ELSE Let(ConfigSearchPath[found], LAMBDA search_path :
             [loaded_cfg |->
                Some(Document(_split_path(search_path.path).path
                                \o <<"/">> \o input_file, jd)),
              checked |-> IF record_load
                          THEN Append(checked,
                                 LoadTrace(input_file, Some(search_path.path),
                                           Some(search_path.provider)))
                          ELSE checked]))

---------------------------------------------------------------------------
(* Overrides and their classification.                                     *)

\* "key=value" split at its first "=".
split_key_val(s) ==
    Let(Find(s, "="), LAMBDA idx :
        [key |-> SubSeq(s, 1, idx - 1), value |-> SubSeq(s, idx + 1, Len(s))])

\* The first loop of _apply_defaults_overrides: the key of a DictConfig is
\* the first of its keys.
RECURSIVE rewrite_key_to_idx(_, _, _)
rewrite_key_to_idx(defaults, idx, acc) ==
    IF idx > Len(defaults) THEN acc
    ELSE rewrite_key_to_idx(defaults, idx + 1,
            IF defaults[idx].isdict
            THEN (defaults[idx].items[1][1] :> idx) @@ acc
            ELSE acc)

\* One iteration of the second loop for an override whose key is in
\* key_to_idx. st holds defaults, overrides and consumed as mutated so far.
rewrite_one(st, override, key_to_idx) ==
    Let(split_key_val(override), LAMBDA kv :
    Let(IF Contains(kv.value, ",") THEN SKIP ELSE kv.value, LAMBDA value :
    Let(key_to_idx[kv.key], LAMBDA idx :
    Let([st EXCEPT !.overrides = RemoveFirst(st.overrides, override),
                   !.consumed = Append(st.consumed, override)], LAMBDA taken :
        IF idx > Len(st.defaults)
        THEN [st EXCEPT !.err = "IndexError"]
        ELSE IF value = <<"null">>
        THEN [taken EXCEPT !.defaults = DelAt(st.defaults, idx)]
        ELSE IF ~st.defaults[idx].isdict
        THEN [st EXCEPT !.err = "TypeError"]
        ELSE [taken EXCEPT !.defaults[idx] =
                SetItem(st.defaults[idx], kv.key, value)]))))

RECURSIVE rewrite_loop(_, _, _, _)
rewrite_loop(copied, i, key_to_idx, st) ==
    IF i > Len(copied) \/ st.err # "" THEN st
    ELSE rewrite_loop(copied, i + 1, key_to_idx,
            IF split_key_val(copied[i]).key \in DOMAIN key_to_idx
            THEN rewrite_one(st, copied[i], key_to_idx)
            ELSE st)

\* _apply_defaults_overrides(overrides, defaults): the exception raised, the
\* two lists after the call and the returned list consumed.
_apply_defaults_overrides(overrides, defaults) ==
    rewrite_loop(overrides, 1, rewrite_key_to_idx(defaults, 1, <<>>),
        [err |-> "", defaults |-> defaults, overrides |-> overrides,
         consumed |-> <<>>])

RECURSIVE free_loop(_, _, _)
free_loop(copied, i, st) ==
    IF i > Len(copied) THEN st
    ELSE free_loop(copied, i + 1,
            Let(split_key_val(copied[i]), LAMBDA kv :
                IF exists_in_search_path(kv.key)
                THEN [defaults |-> IF ~Contains(kv.value, ",")
                                   THEN Append(st.defaults, Binding(kv.key, kv.value))
                                   ELSE st.defaults,
                      overrides |-> RemoveFirst(st.overrides, copied[i]),
                      consumed |-> Append(st.consumed, copied[i])]
                ELSE st))

\* _apply_free_defaults(defaults, overrides)
_apply_free_defaults(defaults, overrides) ==
    free_loop(overrides, 1,
        [defaults |-> defaults, overrides |-> overrides, consumed |-> <<>>])

\* _validate_defaults: TRUE iff no assertion fails.
_validate_defaults(defaults) ==
    \A i \in DOMAIN defaults :
        LET default == defaults[i]
        IN  default.isdict =>
                /\ Len(default.items) \in {1, 2}
                /\ IF Len(default.items) = 2
                   THEN GetItem(default, <<"optional">>) \in {TrueValue, FalseValue}
                   ELSE GetItem(default, <<"optional">>) = NoneValue

---------------------------------------------------------------------------
(* Merging the documents of a defaults list.                               *)

\* OmegaConf.merge(cfg, loaded_cfg): the keys of loaded_cfg win.
TreeMerge(tree, loaded) == loaded @@ tree

get_filename(config_name) ==
    IF Len(config_name) > 0 /\ config_name[Len(config_name)] \in {".yaml", ".yml"}
    THEN config_name
    ELSE config_name \o <<".yaml">>

\* A variant of _merge_config in which a missing document is an error also
\* for an optional entry.
_merge_config_always_required(st, family, name, required, jd) ==
    Let(_load_config_impl(IF family # <<>> THEN family \o <<"/">> \o name ELSE name,
                          TRUE, st.checked, jd),
        LAMBDA loaded :
            IF loaded.loaded_cfg = None
            THEN [st EXCEPT !.err = "MissingConfigException",
                            !.checked = loaded.checked]
            ELSE [st EXCEPT !.tree = TreeMerge(st.tree, loaded.loaded_cfg[1].body),
                            !.checked = loaded.checked])

\* _merge_config on the state st = [err, tree, checked].
_merge_config(st, family, name, required, jd) ==
    Let(_load_config_impl(IF family # <<>> THEN family \o <<"/">> \o name ELSE name,
                          TRUE, st.checked, jd),
        LAMBDA loaded :
            IF loaded.loaded_cfg = None
            THEN IF required
                 THEN [st EXCEPT !.err = "MissingConfigException",
                                 !.checked = loaded.checked]
                 ELSE [st EXCEPT !.checked = loaded.checked]
            ELSE [st EXCEPT !.tree = TreeMerge(st.tree, loaded.loaded_cfg[1].body),
                            !.checked = loaded.checked])

\* The body of the loop of merge_defaults for one element.
merge_one(st, default1, jd) ==
    IF default1.isdict
    THEN Let(GetItem(default1, <<"optional">>), LAMBDA optional :
         Let(IF optional # NoneValue THEN DelItem(default1, <<"optional">>)
             ELSE default1, LAMBDA stripped :
         Let(stripped.items[1][2], LAMBDA name :
             IF name # NoneValue /\ ~Contains(name, "_SKIP_")
             THEN _merge_config(st, stripped.items[1][1], get_filename(name),
                                ~(optional # NoneValue /\ optional = TrueValue), jd)
             ELSE st)))
    ELSE IF ~Contains(default1.str, "_SKIP_")
         THEN _merge_config(st, <<>>, get_filename(default1.str), TRUE, jd)
         ELSE st

RECURSIVE merge_defaults(_, _, _, _)
merge_defaults(st, def_list, i, jd) ==
    IF i > Len(def_list) \/ st.err # "" THEN st
    ELSE merge_defaults(merge_one(st, def_list[i], jd), def_list, i + 1, jd)

\* A variant of SplitDefaults with the two lists exchanged.
SplitDefaults_user_first(defaults, split_at) ==
    LET n == IF Len(defaults) < split_at THEN Len(defaults) ELSE split_at
    IN  [system_list |-> SubSeq(defaults, n + 1, Len(defaults)),
         user_list |-> SubSeq(defaults, 1, n)]

\* The loop that splits defaults into system_list and user_list.
SplitDefaults(defaults, split_at) ==
    LET n == IF Len(defaults) < split_at THEN Len(defaults) ELSE split_at
    IN  [system_list |-> SubSeq(defaults, 1, n),
         user_list |-> SubSeq(defaults, n + 1, Len(defaults))]

\* _merge_defaults(cfg, defaults, split_at) on the state st = [err, tree,
\* checked].
_merge_defaults(st, defaults, split_at, jd) ==
    Let(SplitDefaults(defaults, split_at), LAMBDA lists :
        merge_defaults(merge_defaults(st, lists.system_list, 1, jd),
                       lists.user_list, 1, jd))

---------------------------------------------------------------------------
(* Dotted-path assignment on a tree with struct flags.                     *)

\* p is the node key or lies below it.
IsUnder(p, key) ==
    \/ p = key
    \/ /\ Len(p) > Len(key)
       /\ SubSeq(p, 1, Len(key)) = key
       /\ p[Len(key) + 1] = "."

HasKey(tree, key) == \E p \in DOMAIN tree : IsUnder(p, key)

InHydraSubtree(key) == IsUnder(key, <<"hydra">>)

\* The struct flag in effect where key would be created: cfg.hydra is struct
\* (set_struct(cfg.hydra, True)), every other node inherits the flag of the
\* root (set_struct(cfg, strict)), and a flag that is None is not struct.
StructAt(key, strict) ==
    IF InHydraSubtree(key) THEN TRUE ELSE strict = Some(TRUE)

TreeUpdate(tree, key, value) ==
    (key :> value) @@ [p \in {q \in DOMAIN tree : ~IsUnder(q, key)} |-> tree[p]]

\* cfg.merge_with_dotlist(dotlist) on st = [err, tree]: a key that does not
\* exist cannot be created where the struct flag is set.
RECURSIVE merge_with_dotlist(_, _, _, _)
merge_with_dotlist(st, dotlist, i, strict) ==
    IF i > Len(dotlist) \/ st.err # "" THEN st
    ELSE merge_with_dotlist(
            Let(split_key_val(dotlist[i]), LAMBDA kv :
                IF ~HasKey(st.tree, kv.key) /\ StructAt(kv.key, strict)
                THEN [st EXCEPT !.err = "KeyError"]
                ELSE [st EXCEPT !.tree = TreeUpdate(st.tree, kv.key, kv.value)]),
            dotlist, i + 1, strict)

---------------------------------------------------------------------------
(* load_configuration                                                      *)

is_hydra(x) ==
    /\ Len(x) >= 2
    /\ x[1] = "hydra"
    /\ x[2] \in {".", "/"}

\* A variant of EffectiveStrict that never consults the loader's default.
EffectiveStrict_ignores_default(strict, self_default_strict) == strict

\* strict as load_configuration uses it.
EffectiveStrict(strict, self_default_strict) ==
    IF strict = None THEN self_default_strict ELSE strict

\* What a call that raised before it classified the overrides leaves behind.
Raised(err, checked) ==
    [err |-> err, cfg |-> None, checked |-> checked, strict |-> None,
     split_at |-> 0, merged_defaults |-> <<>>, rewritten_defaults |-> <<>>,
     defaults |-> <<>>, consumed |-> <<>>, consumed_free_job_defaults |-> <<>>,
     remaining_overrides |-> <<>>, merged_tree |-> <<>>, classified |-> FALSE,
     merged |-> FALSE, own_trace |-> <<>>]

\* remaining_overrides = [x for x in overrides if x not in all_consumed]
RemainingOverrides(overrides, all_consumed) ==
    SelectSeq(overrides, LAMBDA x : ~Contains(all_consumed, x))

\* The configuration returned: the merged tree, and the keys of hydra.* that
\* load_configuration writes.  hydra.job.override_dirname, a function of
\* overrides.task computed outside this file, is left out.
ComposedConfig(tree, remaining, config_file) ==
    [tree |-> IF <<"hydra", ".", "job", ".", "name">> \in DOMAIN tree THEN tree
              ELSE (<<"hydra", ".", "job", ".", "name">> :> <<"app">>) @@ tree,
     overrides_task |-> SelectSeq(remaining, LAMBDA x : ~is_hydra(x)),
     overrides_hydra |-> SelectSeq(remaining, LAMBDA x : is_hydra(x)),
     config_file |-> config_file,
     cache |-> None]

\* Lines 86-114 of load_configuration: the documents of defaults are merged,
\* the residual overrides applied and the bookkeeping written.  classified is
\* the record of the call so far; p2 is what _apply_free_defaults left.
compose(classified, p2, hydra_cfg, config_file, jd) ==
    Let(_merge_defaults([err |-> "", tree |-> hydra_cfg.body,
                         checked |-> classified.checked],
                        classified.defaults, classified.split_at, jd),
        LAMBDA m :
    IF m.err # ""
    THEN [classified EXCEPT !.err = m.err, !.checked = m.checked]
    ELSE
    Let(RemainingOverrides(p2.overrides,
            classified.consumed \o classified.consumed_free_job_defaults),
        LAMBDA remaining_overrides :
    Let(merge_with_dotlist([err |-> "", tree |-> m.tree], remaining_overrides,
                           1, classified.strict),
        LAMBDA dot :
    Let([classified EXCEPT !.checked = m.checked, !.merged_tree = m.tree,
                           !.merged = TRUE,
                           !.remaining_overrides = remaining_overrides],
        LAMBDA composed :
    IF dot.err # ""
    THEN [composed EXCEPT !.err = dot.err]
    ELSE [composed EXCEPT !.cfg =
            Some(ComposedConfig(dot.tree,
                    classified.consumed \o classified.consumed_free_job_defaults
                        \o remaining_overrides,
                    config_file))]))))

\* Lines 73-83 of load_configuration: the defaults list is built and the
\* overrides are classified against it.
classify(config_file, overrides, strict, hydra_cfg, job_cfg, checked, jd) ==
    Let(hydra_cfg.defaults \o
            (IF config_file # None THEN <<Bare(config_file[1])>> ELSE <<>>),
        LAMBDA defaults :
    Let(_merge_default_lists(defaults, job_cfg.defaults),
        LAMBDA merged_defaults :
    Let(_apply_defaults_overrides(overrides, merged_defaults),
        LAMBDA p1 :
    IF p1.err # ""
    THEN [Raised(p1.err, checked) EXCEPT
            !.strict = strict, !.split_at = Len(defaults),
            !.merged_defaults = merged_defaults]
    ELSE
    Let(_apply_free_defaults(p1.defaults, p1.overrides),
        LAMBDA p2 :
    Let([Raised("", checked) EXCEPT
            !.strict = strict, !.split_at = Len(defaults),
            !.merged_defaults = merged_defaults,
            !.rewritten_defaults = p1.defaults,
            !.defaults = p2.defaults,
            !.consumed = p1.consumed,
            !.consumed_free_job_defaults = p2.consumed,
            !.classified = TRUE],
        LAMBDA classified :
    IF ~_validate_defaults(p2.defaults)
    THEN [classified EXCEPT !.err = "AssertionError"]
    ELSE compose(classified, p2, hydra_cfg, config_file, jd))))))

\* _create_cfg(cfg_filename, record_load) on st = [err, loaded_cfg, checked]:
\* the document loaded, an empty one for cfg_filename None.
_create_cfg(cfg_filename, record_load, checked, jd) ==
    IF cfg_filename = None
    THEN [err |-> "", cfg |-> [defaults |-> <<>>, body |-> <<>>],
          checked |-> checked]
    ELSE Let(_load_config_impl(cfg_filename[1], record_load, checked, jd),
             LAMBDA ret_ :
                IF ret_.loaded_cfg = None
                THEN [err |-> "AssertionError", cfg |-> None,
                      checked |-> ret_.checked]
                ELSE IF ~_validate_defaults(ret_.loaded_cfg[1].defaults)
                THEN [err |-> "AssertionError", cfg |-> None,
                      checked |-> ret_.checked]
                ELSE [err |-> "", cfg |-> ret_.loaded_cfg[1],
                      checked |-> ret_.checked])

\* load_configuration(config_file, overrides, strict) on a composer whose
\* fields are self_default_strict and checked (all_config_checked); jd is the
\* defaults list of conf/config.yaml.  The record returned holds the
\* exception raised (err), the configuration returned (cfg),
\* all_config_checked afterwards, and the values of the local variables.
load_configuration(config_file, overrides, strict_arg, self_default_strict, checked, jd) ==
    IF config_file # None /\ ~exists_in_search_path(config_file[1])
    THEN Raised("MissingConfigException", checked)
    ELSE
    Let(_create_cfg(Some(<<"hydra", ".yaml">>), TRUE, checked, jd),
        LAMBDA hydra :
    IF hydra.err # "" THEN Raised(hydra.err, hydra.checked)
    ELSE
    Let(_create_cfg(config_file, FALSE, hydra.checked, jd),
        LAMBDA job :
    IF job.err # "" THEN Raised(job.err, job.checked)
    ELSE classify(config_file, overrides,
                  EffectiveStrict(strict_arg, self_default_strict),
                  hydra.cfg, job.cfg, job.checked, jd)))

---------------------------------------------------------------------------
(* load_sweep_config and get_load_history                                  *)

\* sweep_config.hydra.runtime.merge_with(master_config.hydra.runtime)
MergeRuntime(tree, master_tree) ==
    [p \in {q \in DOMAIN master_tree :
                IsUnder(q, <<"hydra", ".", "runtime">>)} |-> master_tree[p]] @@ tree

\* A variant of SweepOverrides that forgets the master's hydra overrides.
SweepOverrides_without_hydra(master_config, sweep_overrides) == sweep_overrides

\* The overrides load_sweep_config passes on.
SweepOverrides(master_config, sweep_overrides) ==
    master_config.overrides_hydra \o sweep_overrides

\* OmegaConf.copy_cache(from_config=master_config, to_config=sweep_config)
copy_cache(from_config, to_config) == [to_config EXCEPT !.cache = from_config.cache]

load_sweep_config(master_config, sweep_overrides, self_default_strict, checked, jd) ==
    Let(load_configuration(master_config.config_file,
                           SweepOverrides(master_config, sweep_overrides),
                           self_default_strict, self_default_strict,
                           checked, jd),
        LAMBDA r :
            IF r.err # "" THEN r
            ELSE [r EXCEPT !.cfg =
                    Some(copy_cache(master_config,
                            [r.cfg[1] EXCEPT
                                !.tree = MergeRuntime(@, master_config.tree)]))])

get_load_history == all_config_checked

---------------------------------------------------------------------------
(* Inputs.                                                                 *)

OptionalBool == {None, Some(TRUE), Some(FALSE)}

ConfigFiles == {None, Some(<<"config", ".yaml">>), Some(<<"missing", ".yaml">>)}

OverrideTokens ==
    { <<"model", "=", "a">>,
      <<"model", "=", "b">>,
      <<"model", "=", "null">>,
      <<"model", "=", "a", ",", "b">>,
      <<"db", "=", "x">>,
      <<"db", "=", "x", ",", "y">>,
      <<"new", "=", "1">>,
      <<"hydra", "/", "launcher", "=", "null">>,
      <<"hydra", ".", "nokey", "=", "1">> }

\* The override lists the calls of a session pass.
SessionOverrides ==
    { <<>>,
      << <<"model", "=", "b">> >>,
      << <<"foo", "=", "2">> >>,
      << <<"hydra", "/", "launcher", "=", "fast">> >>,
      << <<"hydra", ".", "verbose", "=", "true">>,
         <<"hydra", "/", "launcher", "=", "fast">> >>,
      << <<"model", "=", "b">>, <<"hydra", "/", "launcher", "=", "fast">> >> }

SessionConfigFiles == {None, Some(<<"config", ".yaml">>)}

SessionJobDefaults ==
    { << Binding(<<"model">>, <<"a">>) >>,
      << BindingOptional(<<"model">>, <<"zzz">>), Bare(<<"extra">>) >> }

\* Values a resolver may produce for an interpolation such as ${now:}.
ResolvedValues == {"12:00"}

NoCall == [op |-> "", config_file |-> None, overrides |-> <<>>, strict |-> None]

\* The entries a call appended to all_config_checked.
Appended(before, after) == SubSeq(after, Len(before) + 1, Len(after))

---------------------------------------------------------------------------
(* The composer: one call of load_configuration on a composer just         *)
(* constructed.                                                            *)

NoMerge ==
    /\ m_primary = <<>>
    /\ m_merged_list = <<>>
    /\ m_out = <<>>
    /\ m_pc = "unused"

\* No call of list_groups is modelled.
NoGroups ==
    /\ g_files = {}
    /\ g_resources = {}
    /\ g_parent = <<>>
    /\ g_out = {}
    /\ g_pc = "unused"

Init ==
    /\ job_defaults \in JobDefaultsChoices
    /\ default_strict \in OptionalBool
    /\ all_config_checked = <<>>
    /\ call = NoCall
    /\ ret = Raised("", <<>>)
    /\ master = None
    /\ NoMerge
    /\ NoGroups

DoLoadConfiguration(config_file, overrides, strict) ==
    \E r \in {load_configuration(config_file, overrides, strict, default_strict,
                                  all_config_checked, job_defaults)} :
        /\ call' = [op |-> "load_configuration", config_file |-> config_file,
                    overrides |-> overrides, strict |-> strict]
        /\ ret' = [r EXCEPT !.own_trace = Appended(all_config_checked, r.checked)]
        /\ all_config_checked' = r.checked
        /\ master' = IF r.err = "" THEN r.cfg ELSE master
        /\ UNCHANGED <<job_defaults, default_strict, merge_vars, group_vars>>

LoadConfiguration ==
    /\ call = NoCall
    /\ \E config_file \in ConfigFiles, strict \in OptionalBool,
          overrides \in SeqsUpTo(OverrideTokens, MaxOverrides) :
            DoLoadConfiguration(config_file, overrides, strict)

Next == LoadConfiguration

Spec == Init /\ [][Next]_vars

---------------------------------------------------------------------------
(* A session: several calls on the same composer.                          *)

InitSession ==
    /\ job_defaults \in SessionJobDefaults
    /\ default_strict \in OptionalBool
    /\ all_config_checked = <<>>
    /\ call = NoCall
    /\ ret = Raised("", <<>>)
    /\ master = None
    /\ NoMerge
    /\ NoGroups

SessionLoadConfiguration ==
    /\ Len(all_config_checked) < MaxTrace
    /\ \E config_file \in SessionConfigFiles, strict \in OptionalBool,
          overrides \in SessionOverrides :
            DoLoadConfiguration(config_file, overrides, strict)

\* The caller reads an interpolated value of the configuration it keeps: the
\* value is resolved once and stays in the configuration's cache.
ResolveInterpolation ==
    /\ master # None
    /\ master[1].cache = None
    /\ \E v \in ResolvedValues : master' = Some([master[1] EXCEPT !.cache = Some(v)])
    /\ call' = [NoCall EXCEPT !.op = "resolve"]
    /\ UNCHANGED <<job_defaults, default_strict, all_config_checked, ret,
                   merge_vars, group_vars>>

LoadSweepConfig ==
    /\ Len(all_config_checked) < MaxTrace
    /\ master # None
    /\ \E sweep_overrides \in SessionOverrides :
        \E r \in {load_sweep_config(master[1], sweep_overrides, default_strict,
                                     all_config_checked, job_defaults)} :
            /\ call' = [op |-> "load_sweep_config", config_file |-> None,
                        overrides |-> sweep_overrides, strict |-> None]
            /\ ret' = [r EXCEPT !.own_trace = Appended(all_config_checked, r.checked)]
            /\ all_config_checked' = r.checked
            /\ UNCHANGED <<job_defaults, default_strict, master, merge_vars, group_vars>>

NextSession ==
    \/ SessionLoadConfiguration
    \/ ResolveInterpolation
    \/ LoadSweepConfig

SpecSession == InitSession /\ [][NextSession]_vars

---------------------------------------------------------------------------
(* _merge_default_lists on its own: any two valid defaults lists.          *)

DefaultsEntries ==
    { Binding(<<"model">>, <<"a">>),
      Binding(<<"model">>, <<"b">>),
      BindingOptional(<<"model">>, <<"c">>),
      OptionalBinding(<<"db">>, <<"x">>),
      Binding(<<"db">>, <<"y">>),
      Bare(<<"extra">>) }

InitMerge ==
    /\ m_primary \in SeqsUpTo(DefaultsEntries, MaxListLen)
    /\ m_merged_list \in SeqsUpTo(DefaultsEntries, MaxListLen)
    /\ m_out = <<>>
    /\ m_pc = "input"
    /\ job_defaults = <<>>
    /\ default_strict = None
    /\ all_config_checked = <<>>
    /\ call = NoCall
    /\ ret = Raised("", <<>>)
    /\ master = None
    /\ NoGroups

MergeDefaultLists ==
    /\ m_pc = "input"
    /\ m_out' = _merge_default_lists(m_primary, m_merged_list)
    /\ m_pc' = "done"
    /\ UNCHANGED <<m_primary, m_merged_list, loader_vars, group_vars>>

NextMerge == MergeDefaultLists

SpecMerge == InitMerge /\ [][NextMerge]_vars

---------------------------------------------------------------------------
(* list_groups and get_group_options, on a file system and a package whose *)
(* contents are the fixture's plus some further directories.  A name whose *)
(* last lexeme is ".yaml" is a file, every other name is a directory.      *)

\* os.path.join(a, b) for relative b.
os_path_join(a, b) ==
    IF a = <<>> THEN b
    ELSE IF a[Len(a)] = "/" THEN a \o b
    ELSE a \o <<"/">> \o b

\* A path without its trailing separator.
StripSlash(p) ==
    IF p # <<>> /\ p[Len(p)] = "/" THEN SubSeq(p, 1, Len(p) - 1) ELSE p

\* The names directly under directory d among paths (d = <<>> is the root).
ListUnder(paths, d) ==
    IF d = <<>>
    THEN {p \in paths : ~Contains(p, "/")}
    ELSE {SubSeq(p, Len(d) + 2, Len(p)) : p \in
            {r \in paths :
                /\ Len(r) > Len(d) + 1
                /\ SubSeq(r, 1, Len(d)) = d
                /\ r[Len(d) + 1] = "/"
                /\ ~Contains(SubSeq(r, Len(d) + 2, Len(r)), "/")}}

os_path_isdir(files, path) ==
    Let(StripSlash(path), LAMBDA q :
        q \in files /\ q[Len(q)] # ".yaml")

os_listdir(files, path) == ListUnder(files, StripSlash(path))

\* resource_isdir(module_name, resource_name): "" names the package itself.
resource_isdir(resources, module_name, resource_name) ==
    Let(StripSlash(resource_name), LAMBDA q :
        /\ module_name \in DOMAIN resources
        /\ \/ q = <<>>
           \/ q \in resources[module_name] /\ q[Len(q)] # ".yaml")

resource_listdir(resources, module_name, resource_name) ==
    ListUnder(resources[module_name], StripSlash(resource_name))

\* file.endswith(".yaml")
EndsWithYaml(file) == file # <<>> /\ file[Len(file)] = ".yaml"

\* full_path = os.path.join(group_path, group_name, file)
FilesystemFullPath(group_path, group_name, file) ==
    os_path_join(os_path_join(group_path, group_name), file)

\* The names one package entry of the search path contributes.
PackageOptions(path, group_name, file_type, resources) ==
    Let(_split_module_and_resource(path \o <<"/">> \o group_name), LAMBDA mr :
        IF _exists(TRUE, path)
           /\ resource_isdir(resources, mr.module_name, mr.resource_name)
        THEN Let(resource_listdir(resources, mr.module_name, mr.resource_name),
                 LAMBDA all_files :
                    IF file_type = "dir"
                    THEN {file \in all_files :
                            /\ resource_isdir(resources, mr.module_name,
                                              os_path_join(group_name, file))
                            /\ file # <<"__pycache__">>}
                    ELSE IF file_type = "file"
                    THEN {SubSeq(file, 1, Len(file) - 1) :
                            file \in {f \in all_files : EndsWithYaml(f)}}
                    ELSE {})
        ELSE {})

\* The names one file-system entry of the search path contributes.
FilesystemOptions(path, group_name, file_type, files) ==
    Let(path \o <<"/">> \o group_name, LAMBDA group_path :
        IF os_path_isdir(files, group_path)
        THEN Let(os_listdir(files, group_path), LAMBDA all_files :
                IF file_type = "dir"
                THEN {file \in all_files :
                        /\ os_path_isdir(files,
                              FilesystemFullPath(group_path, group_name, file))
                        /\ file # <<"__pycache__">>}
                ELSE IF file_type = "file"
                THEN {SubSeq(file, 1, Len(file) - 1) :
                        file \in {f \in all_files : EndsWithYaml(f)}}
                ELSE {})
        ELSE {})

\* get_group_options(group_name, file_type): what each entry of the search
\* path contributes, in search-path order; the order of the names of one
\* entry is the order of the directory listing, which nothing fixes.
get_group_options(group_name, file_type, files, resources) ==
    [i \in DOMAIN ConfigSearchPath |->
        Let(_split_path(ConfigSearchPath[i].path), LAMBDA sp :
            IF sp.is_pkg
            THEN PackageOptions(sp.path, group_name, file_type, resources)
            ELSE FilesystemOptions(sp.path, group_name, file_type, files))]

\* list_groups(parent_name): list(set(...)), as a set.
list_groups(parent_name, files, resources) ==
    Let(get_group_options(parent_name, "dir", files, resources), LAMBDA options :
        UNION {options[i] : i \in DOMAIN options})

\* Directories that may exist besides the fixture's.
ExtraFiles ==
    { <<"conf", "/", "__pycache__">>,
      <<"conf", "/", "db", "/", "engine">>,
      <<"conf", "/", "db", "/", "__pycache__">>,
      <<"conf", "/", "db", "/", "db">>,
      <<"conf", "/", "db", "/", "db", "/", "engine">> }

ExtraResources ==
    { <<"hydra", "/", "__pycache__">>,
      <<"hydra", "/", "output">>,
      <<"hydra", "/", "launcher", "/", "remote">> }

\* Every path of tree but the roots has its directory in tree.
ParentClosed(tree) ==
    \A p \in tree :
        \A i \in DOMAIN p : p[i] = "/" => SubSeq(p, 1, i - 1) \in tree

ParentNames ==
    { <<>>, <<"db">>, <<"model">>, <<"hydra">>, <<"hydra", "/", "launcher">>,
      <<"nogroup">> }

InitGroups ==
    /\ g_files \in {FilesystemPaths \cup e : e \in SUBSET ExtraFiles}
    /\ ParentClosed(g_files)
    /\ g_resources \in {PackageResources[<<"hydra.conf">>] \cup e :
                            e \in SUBSET ExtraResources}
    /\ g_parent \in ParentNames
    /\ g_out = {}
    /\ g_pc = "input"
    /\ job_defaults = <<>>
    /\ default_strict = None
    /\ all_config_checked = <<>>
    /\ call = NoCall
    /\ ret = Raised("", <<>>)
    /\ master = None
    /\ NoMerge

ListGroups ==
    /\ g_pc = "input"
    /\ g_out' = list_groups(g_parent, g_files, <<"hydra.conf">> :> g_resources)
    /\ g_pc' = "done"
    /\ UNCHANGED <<g_files, g_resources, g_parent, loader_vars, merge_vars>>

NextGroups == ListGroups

SpecGroups == InitGroups /\ [][NextGroups]_vars

---------------------------------------------------------------------------
(* Properties.  The operators of this section describe what a call is      *)
(* expected to leave behind; they are compared with what the operators     *)
(* above computed.                                                         *)

\* A load_configuration call has returned or raised.
Loaded == call.op = "load_configuration"

\* The number of positions of seq that hold x.
Count(seq, x) == Cardinality({i \in DOMAIN seq : seq[i] = x})

\* The dict entries of list whose group (the key that is not "optional") is g.
GroupIdx(list, g) == {i \in DOMAIN list : list[i].isdict /\ get_key(list[i]) = g}

Groups(list) == {get_key(list[i]) : i \in {j \in DOMAIN list : list[j].isdict}}

Max(S) == CHOOSE x \in S : \A y \in S : y <= x
Min(S) == CHOOSE x \in S : \A y \in S : x <= y

OverrideKey(token) == split_key_val(token).key
OverrideValue(token) == split_key_val(token).value

\* No two overrides name the same key.
DistinctKeys(overrides) ==
    \A i, j \in DOMAIN overrides :
        OverrideKey(overrides[i]) = OverrideKey(overrides[j]) => i = j

StartsWith(s, prefix) ==
    Len(s) >= Len(prefix) /\ SubSeq(s, 1, Len(prefix)) = prefix

\* What a defaults entry asks the merge step to do.
EntryChoice(e) == GetItem(e, get_key(e))

EntryLoadable(e) ==
    IF e.isdict
    THEN EntryChoice(e) # NoneValue /\ ~Contains(EntryChoice(e), "_SKIP_")
    ELSE ~Contains(e.str, "_SKIP_")

EntryFile(e) ==
    IF e.isdict
    THEN get_key(e) \o <<"/">> \o get_filename(EntryChoice(e))
    ELSE get_filename(e.str)

EntryOptional(e) == e.isdict /\ GetItem(e, <<"optional">>) = TrueValue

EntryMissing(e) == EntryLoadable(e) /\ ~exists_in_search_path(EntryFile(e))

EntryBody(e) == _load_config_impl(EntryFile(e), FALSE, <<>>, job_defaults).loaded_cfg[1].body

\* The file names the merge step probes for list, in list order, and those
\* of them that exist.
ExpectedProbes(list) ==
    LET S == SelectSeq(list, EntryLoadable)
    IN  [i \in 1..Len(S) |-> EntryFile(S[i])]

ExpectedHits(list) == SelectSeq(ExpectedProbes(list), exists_in_search_path)

\* The bodies of the documents of list that exist, in list order.
ExpectedDocs(list) ==
    LET S == SelectSeq(list, LAMBDA e : EntryLoadable(e) /\ ~EntryMissing(e))
    IN  [i \in 1..Len(S) |-> EntryBody(S[i])]

\* The tree in which every key has the value of the last document of docs
\* that sets it.
LastWins(docs) ==
    [k \in UNION {DOMAIN docs[i] : i \in DOMAIN docs} |->
        docs[Max({i \in DOMAIN docs : k \in DOMAIN docs[i]})][k]]

HydraYamlBody == Document(<<"hydra.conf", "/", "hydra", ".yaml">>, <<>>).body

TraceHits(trace) ==
    LET S == SelectSeq(trace, LAMBDA t : t.path # None)
    IN  [i \in 1..Len(S) |-> S[i].filename]

\* The bindings _apply_free_defaults appends for the tokens it consumed.
FreeBindings(consumed) ==
    LET S == SelectSeq(consumed, LAMBDA t : ~Contains(OverrideValue(t), ","))
    IN  [i \in 1..Len(S) |-> Binding(OverrideKey(S[i]), OverrideValue(S[i]))]

---------------------------------------------------------------------------
(* C1 *)

\* C1: every override token of a load_configuration call ends in exactly one
\* of the three classes (group rewrite, free default, residual), the three
\* classes together are the input as a multiset, and an override whose key
\* is a group of the defaults list is never a free default.
C1_ClassesDisjoint ==
    (Loaded /\ ret.merged) =>
        /\ \A t \in OverrideTokens :
              Count(call.overrides, t) =
                  Count(ret.consumed, t)
                + Count(ret.consumed_free_job_defaults, t)
                + Count(ret.remaining_overrides, t)
        /\ \A i \in DOMAIN ret.consumed_free_job_defaults :
              OverrideKey(ret.consumed_free_job_defaults[i]) \notin Groups(ret.merged_defaults)

\* The multiset half of C1 alone.
C1_MultisetPreserved ==
    (Loaded /\ ret.merged) =>
        \A t \in OverrideTokens :
              Count(call.overrides, t) =
                  Count(ret.consumed, t)
                + Count(ret.consumed_free_job_defaults, t)
                + Count(ret.remaining_overrides, t)

---------------------------------------------------------------------------
(* C2 *)

\* The entry of defaults that an override of group key names.
RewriteTarget(defaults, key) ==
    LET I == {i \in DOMAIN defaults :
                 defaults[i].isdict /\ defaults[i].items[1][1] = key}
    IN  IF I = {} THEN 0 ELSE Max(I)

\* The defaults list after the overrides, each applied to the entry whose
\* key it names at that moment: removed for null, _SKIP_ for a comma list,
\* the new choice otherwise.
RECURSIVE ExpectedRewrite(_, _, _)
ExpectedRewrite(defaults, overrides, i) ==
    IF i > Len(overrides) THEN defaults
    ELSE LET key == OverrideKey(overrides[i])
             value == OverrideValue(overrides[i])
             idx == RewriteTarget(defaults, key)
         IN  ExpectedRewrite(
                IF idx = 0 THEN defaults
                ELSE IF value = <<"null">> THEN DelAt(defaults, idx)
                ELSE IF Contains(value, ",")
                     THEN [defaults EXCEPT ![idx] = SetItem(defaults[idx], key, SKIP)]
                     ELSE [defaults EXCEPT ![idx] = SetItem(defaults[idx], key, value)],
                overrides, i + 1)

\* C2: the group-rewrite phase changes, for every override whose key is the
\* key of a defaults entry, that entry and only that entry (removed for
\* null, _SKIP_ for a comma list, the override's value otherwise), also when
\* the override follows a null override of another group; every other entry
\* is left as it was, and the phase raises nothing.  Stated for calls whose
\* overrides name pairwise different keys.
C2_RewriteOnlyNamedEntry ==
    (/\ Loaded
     /\ ret.classified \/ ret.err \in {"IndexError", "TypeError"}
     /\ DistinctKeys(call.overrides)) =>
        /\ ret.err \notin {"IndexError", "TypeError"}
        /\ ret.rewritten_defaults = ExpectedRewrite(ret.merged_defaults, call.overrides, 1)

---------------------------------------------------------------------------
(* C3 *)

\* C3: the documents are merged in exactly the order of the final defaults
\* list: the hits of the call's load trace are hydra.yaml and then the
\* existing documents of the list in list order, every key of the merged
\* tree has the value of the last document of the list that sets it, and
\* the list ends with the free defaults in the order of their overrides.
\* The split into a system pass and a user pass changes none of this, also
\* when an override removed an entry that preceded split_at.
C3_MergeOrderIsListOrder ==
    (Loaded /\ ret.merged) =>
        /\ TraceHits(ret.own_trace) =
              <<<<"hydra", ".yaml">>>> \o ExpectedHits(ret.defaults)
        /\ ret.merged_tree = LastWins(<<HydraYamlBody>> \o ExpectedDocs(ret.defaults))
        /\ ret.defaults =
              ret.rewritten_defaults \o FreeBindings(ret.consumed_free_job_defaults)

\* A call whose override removed the framework's default before split_at,
\* which merged documents from both passes, a later one overwriting lr.
C3_Witness ==
    /\ Loaded
    /\ ret.err = ""
    /\ Len(ret.rewritten_defaults) < Len(ret.merged_defaults)
    /\ Len(ret.defaults) > ret.split_at
    /\ Len(TraceHits(ret.own_trace)) >= 4
    /\ ret.merged_tree[<<"lr">>] # <<"0">>

---------------------------------------------------------------------------
(* C4 *)

Merged == m_pc = "done"

\* The groups that primary binds more than once and secondary binds too.
RepeatedGroups ==
    {g \in Groups(m_primary) :
        /\ Cardinality(GroupIdx(m_primary, g)) > 1
        /\ GroupIdx(m_merged_list, g) # {}}

\* The entry of secondary that stays in primary for group g: every entry of
\* g is written to the same position, in the order of secondary.
Replacement(g) == m_merged_list[Max(GroupIdx(m_merged_list, g))]

\* C4 as stated: of several entries of one group in primary, the first is
\* the one replaced by secondary's entry of the group, at its position, and
\* the later ones are left unchanged.
C4_FirstOccurrenceReplaced ==
    Merged =>
        \A g \in RepeatedGroups :
            LET I == GroupIdx(m_primary, g)
            IN  /\ m_out[Min(I)] = Replacement(g)
                /\ \A i \in I \ {Min(I)} : m_out[i] = m_primary[i]

\* C4, amended: of several entries of one group in primary, the last is the
\* one replaced by secondary's entry of the group, at its position, and the
\* earlier ones are left unchanged.
C4_LastOccurrenceReplaced ==
    Merged =>
        \A g \in RepeatedGroups :
            LET I == GroupIdx(m_primary, g)
            IN  /\ m_out[Max(I)] = Replacement(g)
                /\ \A i \in I \ {Max(I)} : m_out[i] = m_primary[i]

\* A merge in which the last of two entries of a group was replaced by an
\* entry that differs from both, the first one staying.
C4_Witness ==
    /\ Merged
    /\ \E g \in RepeatedGroups :
          LET I == GroupIdx(m_primary, g)
          IN  /\ Replacement(g) \notin {m_primary[i] : i \in I}
              /\ m_out[Max(I)] = Replacement(g)
              /\ m_out[Min(I)] = m_primary[Min(I)]

---------------------------------------------------------------------------
(* C5 *)

BareFiles(list) == SelectSeq(list, LAMBDA e : ~e.isdict)

\* C5 as stated: merging the empty list into L, and merging a copy of L
\* into L, both leave L unchanged.
C5_MergeIdentity ==
    Merged =>
        /\ m_merged_list = <<>> => m_out = m_primary
        /\ m_merged_list = m_primary => m_out = m_primary

\* C5, amended: merging the empty list into L leaves L unchanged; merging a
\* copy of L into L leaves every entry of L in place and appends the
\* bare-file strings of L once more, in their order, so that it is the
\* identity exactly for the lists without bare-file strings.
C5_MergeIdentityUpToBareFiles ==
    Merged =>
        /\ m_merged_list = <<>> => m_out = m_primary
        /\ m_merged_list = m_primary => m_out = m_primary \o BareFiles(m_primary)

\* A list with a group binding and a bare-file string was merged into
\* itself.
C5_Witness ==
    /\ Merged
    /\ m_merged_list = m_primary
    /\ BareFiles(m_primary) # <<>>
    /\ Groups(m_primary) # {}
    /\ Len(m_out) = Len(m_primary) + 1

---------------------------------------------------------------------------
(* C6 *)

\* C6: an override whose value contains a comma, the only override of its
\* key, causes no document of its group to be probed or recorded, leaves the
\* entry of its group (if the defaults list has one) with the choice _SKIP_,
\* adds no entry otherwise, and is reported in hydra.overrides of the
\* configuration returned.
C6_CommaOverrideLoadsNothing ==
    Loaded =>
        \A i \in DOMAIN call.overrides :
            LET t == call.overrides[i]
                key == OverrideKey(t)
            IN  (/\ Contains(OverrideValue(t), ",")
                 /\ \A j \in DOMAIN call.overrides :
                        OverrideKey(call.overrides[j]) = key => j = i) =>
                    /\ \A k \in DOMAIN ret.own_trace :
                          ~StartsWith(ret.own_trace[k].filename, key \o <<"/">>)
                    /\ ret.classified =>
                          \A j \in GroupIdx(ret.defaults, key) :
                              EntryChoice(ret.defaults[j]) = SKIP
                    /\ (ret.classified /\ key \notin Groups(ret.merged_defaults)) =>
                          GroupIdx(ret.defaults, key) = {}
                    /\ ret.err = "" =>
                          Contains(ret.cfg[1].overrides_task \o ret.cfg[1].overrides_hydra, t)

---------------------------------------------------------------------------
(* C7 *)

\* The residual overrides whose key the merged tree does not have.
AbsentResiduals ==
    {ret.remaining_overrides[i] : i \in
        {j \in DOMAIN ret.remaining_overrides :
            ~HasKey(ret.merged_tree, OverrideKey(ret.remaining_overrides[j]))}}

Created(t) ==
    /\ ret.cfg # None
    /\ OverrideKey(t) \in DOMAIN ret.cfg[1].tree
    /\ ret.cfg[1].tree[OverrideKey(t)] = OverrideValue(t)

StrictInEffect == IF call.strict # None THEN call.strict ELSE default_strict

\* C7 as stated: with strict true a residual override of an absent key
\* fails; with strict false or unset every such override creates the key;
\* strict is the argument when given, the loader's default otherwise.
C7_StrictContract ==
    (Loaded /\ ret.merged) =>
        /\ ret.strict = StrictInEffect
        /\ (ret.strict = Some(TRUE) /\ AbsentResiduals # {}) => ret.err = "KeyError"
        /\ ret.strict # Some(TRUE) =>
              ret.err = "" /\ \A t \in AbsentResiduals : Created(t)

\* C7, amended: with strict true a residual override of an absent key fails;
\* with strict false or unset such an override creates the key when the key
\* lies outside the hydra subtree, and the call fails with the same error
\* when one of them lies inside it; strict is the argument when given, the
\* loader's default otherwise.
C7_StrictContractOutsideHydra ==
    (Loaded /\ ret.merged) =>
        /\ ret.strict = StrictInEffect
        /\ (ret.strict = Some(TRUE) /\ AbsentResiduals # {}) => ret.err = "KeyError"
        /\ ret.strict # Some(TRUE) =>
              IF \E t \in AbsentResiduals : InHydraSubtree(OverrideKey(t))
              THEN ret.err = "KeyError"
              ELSE ret.err = "" /\ \A t \in AbsentResiduals : Created(t)

\* A call without a strict argument on a loader whose default is false
\* created a key; the same call on a loader whose default is true failed.
C7_Witness ==
    /\ Loaded
    /\ ret.merged
    /\ call.strict = None
    /\ AbsentResiduals # {}
    /\ \/ default_strict = Some(FALSE) /\ ret.err = ""
             /\ \A t \in AbsentResiduals : Created(t)
       \/ default_strict = Some(TRUE) /\ ret.err = "KeyError"

---------------------------------------------------------------------------
(* C8 *)

RequiredMissing(list) ==
    \E i \in DOMAIN list : EntryMissing(list[i]) /\ ~EntryOptional(list[i])

OptionalMissing(list) ==
    \E i \in DOMAIN list : EntryMissing(list[i]) /\ EntryOptional(list[i])

\* C8: the merge step raises the missing-config error exactly when an entry
\* it loads is required and names no existing document; an optional entry
\* that names no existing document is probed, recorded as a miss, and the
\* merged tree is the one of the list without it.
C8_OptionalMissingIsSilent ==
    (Loaded /\ ret.classified /\ ret.err # "AssertionError") =>
        /\ RequiredMissing(ret.defaults) <=> ret.err = "MissingConfigException"
        /\ ~RequiredMissing(ret.defaults) =>
              /\ ret.merged
              /\ ret.merged_tree =
                    LastWins(<<HydraYamlBody>> \o
                             ExpectedDocs(SelectSeq(ret.defaults,
                                 LAMBDA e : ~(EntryMissing(e) /\ EntryOptional(e)))))
              /\ \A i \in DOMAIN ret.defaults :
                    EntryMissing(ret.defaults[i]) =>
                        \E k \in DOMAIN ret.own_trace :
                            /\ ret.own_trace[k].filename = EntryFile(ret.defaults[i])
                            /\ ret.own_trace[k].path = None

\* A call returned although an optional entry named a document that does
\* not exist.
C8_Witness ==
    /\ Loaded
    /\ ret.err = ""
    /\ OptionalMissing(ret.defaults)

---------------------------------------------------------------------------
(* C9 *)

\* The keys of tree outside the hydra subtree, with their values.
UserKeys(tree) == [p \in {q \in DOMAIN tree : ~InHydraSubtree(q)} |-> tree[p]]

SweptWithoutOverrides == call.op = "load_sweep_config" /\ call.overrides = <<>>

SweepEqualsMaster ==
    /\ ret.err = ""
    /\ UserKeys(ret.cfg[1].tree) = UserKeys(master[1].tree)
    /\ ret.cfg[1].cache = master[1].cache

\* C9 as stated: for every master that load_configuration produced,
\* load_sweep_config(master, []) returns a configuration equal to master on
\* the keys outside the hydra subtree and on the resolved interpolations.
C9_SweepReproducesMaster ==
    SweptWithoutOverrides => SweepEqualsMaster

\* C9, amended: for every master that load_configuration produced without
\* task overrides (hydra.overrides.task is empty), load_sweep_config(master,
\* []) returns a configuration equal to master on the keys outside the hydra
\* subtree and on the resolved interpolations; the overrides under hydra. and
\* hydra/ are the only ones replayed.
C9_SweepReproducesMasterWithoutTaskOverrides ==
    (SweptWithoutOverrides /\ master[1].overrides_task = <<>>) => SweepEqualsMaster

\* A master made with a hydra override that brings a user key, one
\* interpolation resolved, was swept without overrides.
C9_Witness ==
    /\ SweptWithoutOverrides
    /\ master[1].overrides_task = <<>>
    /\ master[1].overrides_hydra # <<>>
    /\ master[1].cache # None
    /\ ret.err = ""
    /\ <<"workers">> \in DOMAIN ret.cfg[1].tree

---------------------------------------------------------------------------
(* C10 *)

\* C10: after a call of load_configuration (directly or through
\* load_sweep_config) the load history is exactly the entries that call
\* produced, none of an earlier call.
C10_TraceOfLastCallOnly ==
    call.op \in {"load_configuration", "load_sweep_config"} =>
        get_load_history = ret.own_trace

---------------------------------------------------------------------------
(* C11 *)

\* A plain choice: neither null nor a comma list.
PlainChoice(token) ==
    /\ OverrideValue(token) # <<"null">>
    /\ ~Contains(OverrideValue(token), ",")

\* The positions of overrides whose key is g.
OverridesOf(overrides, g) ==
    {i \in DOMAIN overrides : OverrideKey(overrides[i]) = g}

\* The groups of the defaults list that the call overrides more than once,
\* every time with a plain choice.
TwiceOverridden ==
    {g \in Groups(ret.merged_defaults) :
        /\ Cardinality(OverridesOf(call.overrides, g)) > 1
        /\ \A i \in OverridesOf(call.overrides, g) : PlainChoice(call.overrides[i])}

\* C11: when two overrides G=x and G=y name the same group G of the
\* defaults list, x before y, the entry of G has the choice y after the
\* group rewrite, both overrides are consumed by the rewrite, none is a free
\* default or a residual, and both are reported in hydra.overrides.
C11_LastChoiceWinsBothConsumed ==
    (Loaded /\ ret.classified) =>
        \A g \in TwiceOverridden :
            LET I == OverridesOf(call.overrides, g)
                y == OverrideValue(call.overrides[Max(I)])
            IN  /\ GroupIdx(ret.rewritten_defaults, g) # {}
                /\ \A k \in GroupIdx(ret.rewritten_defaults, g) :
                      EntryChoice(ret.rewritten_defaults[k]) = y
                /\ \A i \in I :
                      LET t == call.overrides[i]
                      IN  /\ Count(ret.consumed, t) = Count(call.overrides, t)
                          /\ ~Contains(ret.consumed_free_job_defaults, t)
                          /\ ~Contains(ret.remaining_overrides, t)
                          /\ ret.err = "" =>
                                Contains(ret.cfg[1].overrides_task
                                            \o ret.cfg[1].overrides_hydra, t)

---------------------------------------------------------------------------
(* C12 *)

\* The directory of parent in the search-path entry whose root is root.
DirOf(root, parent) ==
    IF parent = <<>> THEN root ELSE root \o <<"/">> \o parent

\* The names of the directories of tree directly under directory d.
SubDirectories(tree, d) ==
    {<<p[Len(p)]>> : p \in
        {r \in tree :
            /\ Len(r) = Len(d) + 2
            /\ SubSeq(r, 1, Len(d)) = d
            /\ r[Len(d) + 1] = "/"
            /\ r[Len(r)] # ".yaml"}}

FilesystemSubDirectories == SubDirectories(g_files, DirOf(<<"conf">>, g_parent))

PackageSubDirectories ==
    IF g_parent = <<>>
    THEN {p \in g_resources : Len(p) = 1 /\ p[1] # ".yaml"}
    ELSE SubDirectories(g_resources, g_parent)

\* C12: list_groups(parent) returns exactly the names of the directories
\* directly under parent in the entries of the search path, file system and
\* package alike, without __pycache__; a directory parent/sub of the file
\* system always contributes sub.
C12_ListGroupsIsUnionOfSubDirectories ==
    g_pc = "done" =>
        /\ g_out = (FilesystemSubDirectories \cup PackageSubDirectories)
                        \ {<<"__pycache__">>}
        /\ (FilesystemSubDirectories \ {<<"__pycache__">>}) \subseteq g_out

=============================================================================
